---- MODULE Spec2Model ----
(***************************************************************************)
(* slice-db: the dump engine (src/slice_db/dump.py) and the restore engine *)
(* (src/slice_db/restore.py) as one state machine.  A dump runs from the   *)
(* coordinator's start to its end; a restore may then load the archive the *)
(* dump wrote into a destination database of the same schema.              *)
(***************************************************************************)
EXTENDS Integers, Sequences, FiniteSets, TLC

(***************************************************************************)
(* Bounds of the model.                                                    *)
(***************************************************************************)
MaxParallelism == 2
MaxInserts == 1
MaxCandidates == 2

(***************************************************************************)
(* Program constants.                                                      *)
(***************************************************************************)
GuardAccount == 3439
TidOffsetBits == 16

FORWARD == "FORWARD"
REVERSE == "REVERSE"
SLICE == "SLICE"
SQL == "SQL"
Null == -1
NoOwner == 0
Coordinator == 0

Workers == 1..MaxParallelism

(***************************************************************************)
(* Small helpers on sequences and sets.                                    *)
(***************************************************************************)
Range(s) == {s[i] : i \in DOMAIN s}

RECURSIVE SetToSortedSeq(_)
SetToSortedSeq(S) ==
    IF S = {} THEN <<>>
    ELSE LET m == CHOOSE x \in S : \A y \in S : x <= y
         IN  <<m>> \o SetToSortedSeq(S \ {m})

RECURSIVE SumSeq(_)
SumSeq(s) == IF s = <<>> THEN 0 ELSE Head(s) + SumSeq(Tail(s))

(***************************************************************************)
(* Row identifiers.  A Tid is a (block, offset) pair; the row-id sets hold *)
(* the packed integer.                                                     *)
(***************************************************************************)
tid_to_int(tid) == tid[1] * (2 ^ TidOffsetBits) + tid[2]

int_to_tid(n) == <<n \div (2 ^ TidOffsetBits), n % (2 ^ TidOffsetBits)>>

(***************************************************************************)
(* Rows of the source database.  Every row carries its table, its physical *)
(* address, its key and the values of the columns the model knows: two     *)
(* foreign-key columns p and q and account_id (Null where the table has no *)
(* such column or the value is NULL).                                      *)
(***************************************************************************)
Row(t, tid, id, p, q, acct) ==
    [table |-> t, tid |-> tid,
     vals |-> [id |-> id, p |-> p, q |-> q, account_id |-> acct]]

TableConfig(id, columns) == [id |-> id, columns |-> columns]

ReferenceConfig(id, t, columns, rt, reference_columns, directions) ==
    [id |-> id, table |-> t, columns |-> columns, reference_table |-> rt,
     reference_columns |-> reference_columns, directions |-> directions]

RootConfig(t, ids) == [table |-> t, condition |-> ids]

(***************************************************************************)
(* The inputs: schema descriptions, database contents and root lists.      *)
(*   S1  self-referencing table node(id, p), both directions               *)
(*   S3  order.p -> customer.id, FORWARD only                              *)
(*   CO  the same tables with both directions enabled                      *)
(*   S4  diamond: b.p -> a.id and b.q -> a.id reach the same rows of a     *)
(*   RV  order.p -> customer.id, REVERSE only: an order without its        *)
(*       customer is dumped                                                *)
(*   CY  two tables that reference each other: a.p -> b.id, b.p -> a.id    *)
(*   GD  b.p -> a.id into a table with account_id: one row of another      *)
(*       account and one row whose account_id is NULL                      *)
(*   BAD a schema description with a dangling reference                    *)
(*   DS  a reference whose source table is unknown                         *)
(*   DT  a table id defined twice                                          *)
(*   DR  a reference id defined twice                                      *)
(*   ML  a reference with two columns and one reference column             *)
(***************************************************************************)
NodeRows ==
    {Row("node", <<0, 1>>, 1, Null, Null, Null),
     Row("node", <<0, 2>>, 2, 1, Null, Null),
     Row("node", <<0, 3>>, 3, 2, Null, Null),
     Row("node", <<0, 4>>, 4, Null, Null, Null)}

CustomerOrderRows ==
    {Row("customer", <<0, 1>>, 1, Null, Null, GuardAccount),
     Row("order", <<0, 1>>, 1, 1, Null, Null),
     Row("order", <<0, 2>>, 2, 1, Null, Null)}

DiamondRows ==
    {Row("a", <<0, 1>>, 1, Null, Null, GuardAccount),
     Row("a", <<0, 2>>, 2, Null, Null, GuardAccount),
     Row("a", <<1, 1>>, 3, Null, Null, GuardAccount + 1),
     Row("b", <<0, 1>>, 1, 1, 1, Null),
     Row("b", <<0, 2>>, 2, 2, 1, Null),
     Row("b", <<0, 3>>, 3, 3, Null, Null)}

PartialRows ==
    {Row("customer", <<0, 1>>, 1, Null, Null, GuardAccount),
     Row("customer", <<0, 2>>, 2, Null, Null, GuardAccount),
     Row("order", <<0, 1>>, 1, 2, Null, Null)}

MutualRows ==
    {Row("a", <<0, 1>>, 1, 1, Null, Null),
     Row("b", <<0, 1>>, 1, 1, Null, Null)}

AccountRows ==
    {Row("a", <<0, 1>>, 1, Null, Null, Null),
     Row("a", <<0, 2>>, 2, Null, Null, GuardAccount + 1),
     Row("b", <<0, 1>>, 1, 1, Null, Null),
     Row("b", <<0, 2>>, 2, 2, Null, Null)}

PairRows ==
    {Row("a", <<0, 1>>, 1, 1, 1, Null),
     Row("b", <<0, 1>>, 1, Null, Null, Null)}

CustomerOrderTables ==
    <<TableConfig("customer", <<"id", "account_id">>),
      TableConfig("order", <<"id", "p">>)>>

Scenarios ==
    {[name |-> "S1",
      desc |-> [tables |-> <<TableConfig("node", <<"id", "p">>)>>,
                references |->
                  <<ReferenceConfig("node_parent", "node", <<"p">>, "node",
                                    <<"id">>, {FORWARD, REVERSE})>>],
      rows |-> NodeRows,
      inserts |-> {Row("node", <<0, 5>>, 5, 3, Null, Null)},
      roots |-> {<<RootConfig("node", {2})>>}],
     [name |-> "S3",
      desc |-> [tables |-> CustomerOrderTables,
                references |->
                  <<ReferenceConfig("order_customer", "order", <<"p">>,
                                    "customer", <<"id">>, {FORWARD})>>],
      rows |-> CustomerOrderRows,
      inserts |-> {Row("customer", <<0, 2>>, 2, Null, Null, GuardAccount)},
      roots |-> {<<RootConfig("order", {1})>>,
                 <<RootConfig("order", {9}), RootConfig("customer", {1})>>,
                 <<RootConfig("orders", {1})>>}],
     [name |-> "CO",
      desc |-> [tables |-> CustomerOrderTables,
                references |->
                  <<ReferenceConfig("order_customer", "order", <<"p">>,
                                    "customer", <<"id">>, {FORWARD, REVERSE})>>],
      rows |-> CustomerOrderRows,
      inserts |-> {Row("order", <<0, 3>>, 3, 1, Null, Null)},
      roots |-> {<<RootConfig("order", {1})>>,
                 <<RootConfig("order", {1}), RootConfig("customer", {1})>>}],
     [name |-> "S4",
      desc |-> [tables |-> <<TableConfig("a", <<"id", "account_id">>),
                             TableConfig("b", <<"id", "p", "q">>)>>,
                references |->
                  <<ReferenceConfig("b_p", "b", <<"p">>, "a", <<"id">>, {FORWARD}),
                    ReferenceConfig("b_q", "b", <<"q">>, "a", <<"id">>, {FORWARD})>>],
      rows |-> DiamondRows,
      inserts |-> {Row("b", <<1, 1>>, 4, 2, 2, Null)},
      roots |-> {<<RootConfig("b", {1, 2})>>,
                 <<RootConfig("b", {3}), RootConfig("b", {9})>>}],
     [name |-> "RV",
      desc |-> [tables |-> CustomerOrderTables,
                references |->
                  <<ReferenceConfig("order_customer", "order", <<"p">>,
                                    "customer", <<"id">>, {REVERSE})>>],
      rows |-> PartialRows,
      inserts |-> {},
      roots |-> {<<RootConfig("order", {1}), RootConfig("customer", {1})>>}],
     [name |-> "CY",
      desc |-> [tables |-> <<TableConfig("a", <<"id", "p">>),
                             TableConfig("b", <<"id", "p">>)>>,
                references |->
                  <<ReferenceConfig("a_b", "a", <<"p">>, "b", <<"id">>, {FORWARD}),
                    ReferenceConfig("b_a", "b", <<"p">>, "a", <<"id">>, {FORWARD})>>],
      rows |-> MutualRows,
      inserts |-> {},
      roots |-> {<<RootConfig("a", {1})>>}],
     [name |-> "GD",
      desc |-> [tables |-> <<TableConfig("a", <<"id", "account_id">>),
                             TableConfig("b", <<"id", "p">>)>>,
                references |->
                  <<ReferenceConfig("b_a", "b", <<"p">>, "a", <<"id">>, {FORWARD})>>],
      rows |-> AccountRows,
      inserts |-> {},
      roots |-> {<<RootConfig("b", {1})>>,
                 <<RootConfig("a", {2})>>,
                 <<RootConfig("a", {2}), RootConfig("b", {2})>>}],
     [name |-> "BAD",
      desc |-> [tables |-> <<TableConfig("a", <<"id">>)>>,
                references |->
                  <<ReferenceConfig("a_x", "a", <<"p">>, "x", <<"id">>, {FORWARD})>>],
      rows |-> {},
      inserts |-> {},
      roots |-> {<<RootConfig("a", {1})>>}],
     [name |-> "DS",
      desc |-> [tables |-> <<TableConfig("a", <<"id">>)>>,
                references |->
                  <<ReferenceConfig("x_a", "x", <<"p">>, "a", <<"id">>, {FORWARD})>>],
      rows |-> {},
      inserts |-> {},
      roots |-> {<<RootConfig("a", {1})>>}],
     [name |-> "DT",
      desc |-> [tables |-> <<TableConfig("a", <<"id">>),
                             TableConfig("a", <<"id", "p">>)>>,
                references |-> <<>>],
      rows |-> {},
      inserts |-> {},
      roots |-> {<<RootConfig("a", {1})>>}],
     [name |-> "DR",
      desc |-> [tables |-> <<TableConfig("a", <<"id", "p", "q">>),
                             TableConfig("b", <<"id">>)>>,
                references |->
                  <<ReferenceConfig("a_b", "a", <<"p">>, "b", <<"id">>, {FORWARD}),
                    ReferenceConfig("a_b", "a", <<"q">>, "b", <<"id">>, {FORWARD})>>],
      rows |-> {},
      inserts |-> {},
      roots |-> {<<RootConfig("a", {1})>>}],
     [name |-> "ML",
      desc |-> [tables |-> <<TableConfig("a", <<"id", "p", "q">>),
                             TableConfig("b", <<"id">>)>>,
                references |->
                  <<ReferenceConfig("a_b", "a", <<"p", "q">>, "b", <<"id">>,
                                    {FORWARD})>>],
      rows |-> PairRows,
      inserts |-> {},
      roots |-> {<<RootConfig("a", {1})>>}]}

DumpParams ==
    [include_schema : BOOLEAN, parallelism : 1..MaxParallelism,
     output_type : {SLICE, SQL}]

(***************************************************************************)
(* Schema.__init__: the tables by id, then the references in the order of  *)
(* the description, each appended to its table's references and to its     *)
(* reference table's reverse_references.                                   *)
(***************************************************************************)
TableIds(desc) == {desc.tables[i].id : i \in DOMAIN desc.tables}

DuplicateTable(desc) ==
    \E i, j \in DOMAIN desc.tables :
        i < j /\ desc.tables[i].id = desc.tables[j].id

ReferenceError(desc, k) ==
    LET rc == desc.references[k]
    IN  IF rc.table \notin TableIds(desc) THEN "No table"
        ELSE IF rc.reference_table \notin TableIds(desc) THEN "No table"
        ELSE IF \E j \in 1..(k - 1) : desc.references[j].id = rc.id
             THEN "Multiple definitions for reference"
        ELSE "ok"

Schema(desc) ==
    IF DuplicateTable(desc)
    THEN [ok |-> FALSE, error |-> "Multiple definitions for table"]
    ELSE IF \E k \in DOMAIN desc.references : ReferenceError(desc, k) /= "ok"
    THEN LET k == CHOOSE k \in DOMAIN desc.references :
                     /\ ReferenceError(desc, k) /= "ok"
                     /\ \A j \in 1..(k - 1) : ReferenceError(desc, j) = "ok"
         IN  [ok |-> FALSE, error |-> ReferenceError(desc, k)]
    ELSE [ok |-> TRUE,
          tables |->
            [t \in TableIds(desc) |->
               LET tc == CHOOSE c \in Range(desc.tables) : c.id = t
                   ids(s) == [i \in DOMAIN s |-> s[i].id]
               IN  [id |-> t,
                    columns |-> tc.columns,
                    references |->
                      ids(SelectSeq(desc.references, LAMBDA r : r.table = t)),
                    reverse_references |->
                      ids(SelectSeq(desc.references,
                                    LAMBDA r : r.reference_table = t))]],
          references |->
            [r \in {desc.references[i].id : i \in DOMAIN desc.references} |->
               CHOOSE c \in Range(desc.references) : c.id = r]]

NoSchema == [ok |-> FALSE, error |-> "not loaded"]

(***************************************************************************)
(* State.                                                                  *)
(***************************************************************************)
VARIABLES
    scenario,         \* the schema description and the source database's rows
    root_configs,     \* dump's root_configs argument
    params,           \* dump's DumpParams
    pc,               \* where dump() is
    error,            \* the exception dump() raised, "" while none
    opened,           \* every resource dump() has opened so far
    schema,           \* Schema(dump_config)
    db,               \* the source database's committed rows, now
    inserted,         \* number of rows concurrent DML has inserted
    snapshot,         \* the rows of the coordinator's snapshot
    sess,             \* sessions: Coordinator and one per worker
    output,           \* the sink: regions, segments written, open stream
    sink_lock,        \* _SliceOutput._lock / _SqlOutput._lock
    pool,             \* WorkerRunner: "idle", "running", "done", "failed"
    queue,            \* items waiting for a worker
    wpc,              \* per worker: where process_item is
    witem,            \* per worker: the item being processed
    wfound,           \* per worker: found_ids of the discovery query
    wnew,             \* per worker: new_ids computed inside add
    wseg,             \* per worker: the segment add returned
    wtmp,             \* per worker: the scratch file
    row_ids,          \* _DiscoveryResult._row_ids
    id_count,         \* _DiscoveryResult._id_count
    table_manifests,  \* _DiscoveryResult._table_manifests, in insertion order
    lock,             \* _DiscoveryResult._lock
    add_log,          \* history: segments in the order add returned them
    emitted,          \* history: every item a task has yielded
    rparams,          \* restore's RestoreParams
    rpc,              \* where restore() is, "none" before it is called
    rerror,           \* the exception restore() raised, "" while none
    ropened,          \* every resource restore() has opened so far
    fk_kind,          \* the destination's foreign keys: deferrable or not
    items,            \* the manifest's tables, in manifest order
    constraints,      \* get_constaints' result
    deferred_in,      \* transactions in which SET CONSTRAINTS DEFERRED ran
    istate,           \* GraphRunner: the state of each item
    rwpc,             \* per restore worker: where process is
    rwitem,           \* per restore worker: the item's table id
    rwnext,           \* per restore worker: the next segment index
    pending,          \* per transaction: rows copied and not yet committed
    aborted,          \* transactions a failed statement has aborted
    dest              \* the destination database's committed rows

inputVars == <<scenario, root_configs, params>>
coordVars == <<pc, error, opened, schema>>
dbVars == <<db, inserted, snapshot>>
sinkVars == <<output, sink_lock>>
workerVars == <<wpc, witem, wfound, wnew, wseg, wtmp>>
resultVars == <<row_ids, id_count, table_manifests, lock>>
histVars == <<add_log, emitted>>
dumpVars == <<inputVars, coordVars, dbVars, sess, sinkVars, pool, queue,
              workerVars, resultVars, histVars>>
rcoordVars == <<rparams, rpc, rerror, ropened, fk_kind, items, constraints,
                deferred_in>>
rworkerVars == <<rwpc, rwitem, rwnext>>
destVars == <<pending, aborted, dest>>
restoreVars == <<rcoordVars, istate, rworkerVars, destVars>>
vars == <<dumpVars, restoreVars>>

NoSegment == [table |-> "", index |-> -1, row_ids |-> <<>>]

_TableSegment(t, row_id_seq, index) ==
    [table |-> t, index |-> index, row_ids |-> row_id_seq]

_RootItem(n, t, condition) ==
    [kind |-> "root", n |-> n, table |-> t, condition |-> condition,
     direction |-> "", reference |-> "", segment |-> NoSegment]

_ReferenceItem(segment, reference, direction) ==
    [kind |-> "ref", n |-> 0, table |-> "", condition |-> {},
     direction |-> direction, reference |-> reference, segment |-> segment]

NoItem == [kind |-> "none", n |-> 0, table |-> "", condition |-> {},
           direction |-> "", reference |-> "", segment |-> NoSegment]

ClosedSession == [open |-> FALSE, view |-> "none"]

NoOutput == [open |-> FALSE, predata |-> FALSE, postdata |-> FALSE,
             segments |-> <<>>, stream |-> NoSegment, manifest |-> <<>>,
             manifest_written |-> FALSE]

(***************************************************************************)
(* What a session sees: a frozen session reads the snapshot, any other the *)
(* database as it is now.                                                  *)
(***************************************************************************)
View(s) == IF sess[s].view = "snapshot" THEN snapshot ELSE db

TidSeq(tids) == LET ints == SetToSortedSeq({tid_to_int(t) : t \in tids})
                IN  [i \in DOMAIN ints |-> int_to_tid(ints[i])]

(***************************************************************************)
(* Init: dump() is called with a schema file, roots and parameters.        *)
(***************************************************************************)
DumpInit ==
    /\ scenario \in Scenarios
    /\ root_configs \in scenario.roots
    /\ params \in DumpParams
    /\ pc = "start"
    /\ error = ""
    /\ opened = {}
    /\ schema = NoSchema
    /\ db = scenario.rows
    /\ inserted = 0
    /\ snapshot = {}
    /\ sess = [s \in {Coordinator} \cup Workers |-> ClosedSession]
    /\ output = NoOutput
    /\ sink_lock = NoOwner
    /\ pool = "idle"
    /\ queue = {}
    /\ wpc = [w \in Workers |-> "init"]
    /\ witem = [w \in Workers |-> NoItem]
    /\ wfound = [w \in Workers |-> <<>>]
    /\ wnew = [w \in Workers |-> <<>>]
    /\ wseg = [w \in Workers |-> NoSegment]
    /\ wtmp = [w \in Workers |-> {}]
    /\ row_ids = [t \in {} |-> {}]
    /\ id_count = 0
    /\ table_manifests = <<>>
    /\ lock = NoOwner
    /\ add_log = <<>>
    /\ emitted = {}

NoRestoreParams == [parallelism |-> 0, transaction |-> FALSE]

RestoreIdle ==
    /\ rparams = NoRestoreParams
    /\ rpc = "none"
    /\ rerror = ""
    /\ ropened = {}
    /\ fk_kind = [r \in {} |-> ""]
    /\ items = <<>>
    /\ constraints = {}
    /\ deferred_in = {}
    /\ istate = [t \in {} |-> ""]
    /\ rwpc = [w \in Workers |-> "idle"]
    /\ rwitem = [w \in Workers |-> ""]
    /\ rwnext = [w \in Workers |-> 0]
    /\ pending = [x \in {Coordinator} \cup Workers |-> {}]
    /\ aborted = {}
    /\ dest = {}

Init == DumpInit /\ RestoreIdle

(***************************************************************************)
(* dump(): validation, schema, roots, output, coordinator session.         *)
(***************************************************************************)
Raise(msg) == /\ pc' = "failed"
              /\ error' = msg

\* The check of line 66 left out.
DumpConfigUnchecked(p) == FALSE

DumpConfigConflict(p) == p.output_type = SLICE /\ p.include_schema

ValidateParams ==
    /\ pc = "start"
    /\ IF DumpConfigConflict(params)
       THEN Raise("--output-type=slice is incompatable with --include-schema")
       ELSE pc' = "load_schema" /\ error' = error
    /\ UNCHANGED restoreVars
    /\ UNCHANGED <<inputVars, opened, schema, dbVars, sess, sinkVars, pool,
                   queue, workerVars, resultVars, histVars>>

LoadSchema ==
    /\ pc = "load_schema"
    /\ opened' = opened \cup {"schema_file"}
    /\ schema' = Schema(scenario.desc)
    /\ IF schema'.ok
       THEN pc' = "resolve_roots" /\ error' = error
       ELSE Raise(schema'.error)
    /\ UNCHANGED restoreVars
    /\ UNCHANGED <<inputVars, dbVars, sess, sinkVars, pool, queue, workerVars,
                   resultVars, histVars>>

UnknownRoot(s, rcs) ==
    \E i \in DOMAIN rcs : rcs[i].table \notin DOMAIN s.tables

ResolveRoots ==
    /\ pc = "resolve_roots"
    /\ IF UnknownRoot(schema, root_configs)
       THEN Raise("Root table does not exist")
       ELSE pc' = "open_output" /\ error' = error
    /\ UNCHANGED restoreVars
    /\ UNCHANGED <<inputVars, opened, schema, dbVars, sess, sinkVars, pool,
                   queue, workerVars, resultVars, histVars>>

OpenOutput ==
    /\ pc = "open_output"
    /\ pc' = "open_conn"
    /\ opened' = opened \cup {"output"}
    /\ output' = [output EXCEPT
                    !.open = TRUE,
                    !.predata = (params.output_type = SQL
                                 /\ params.include_schema)]
    /\ UNCHANGED restoreVars
    /\ UNCHANGED <<inputVars, error, schema, dbVars, sess, sink_lock, pool,
                   queue, workerVars, resultVars, histVars>>

(***************************************************************************)
(* Lines 92-107: the coordinator's transaction takes the snapshot, frozen  *)
(* for parallelism 1 and exported otherwise.                               *)
(***************************************************************************)
OpenConn ==
    /\ pc = "open_conn"
    /\ pc' = "dump_rows"
    /\ opened' = opened \cup {"conn"}
    /\ snapshot' = db
    /\ sess' = [sess EXCEPT ![Coordinator] = [open |-> TRUE, view |-> "snapshot"]]
    /\ UNCHANGED restoreVars
    /\ UNCHANGED <<inputVars, error, schema, db, inserted, sinkVars, pool,
                   queue, workerVars, resultVars, histVars>>

(***************************************************************************)
(* _dump_rows: the runner is seeded with one _RootItem per root.           *)
(***************************************************************************)
RootItems(rcs) ==
    {_RootItem(i, rcs[i].table, rcs[i].condition) : i \in DOMAIN rcs}

DumpRows ==
    /\ pc = "dump_rows"
    /\ pc' = "run"
    /\ pool' = "running"
    /\ queue' = RootItems(root_configs)
    /\ UNCHANGED restoreVars
    /\ UNCHANGED <<inputVars, error, opened, schema, dbVars, sess, sinkVars,
                   workerVars, resultVars, histVars>>

(***************************************************************************)
(* Concurrent DML on the source database while the dump runs.              *)
(***************************************************************************)
InsertRow ==
    /\ pc \in {"open_conn", "dump_rows", "run"}
    /\ inserted < MaxInserts
    /\ \E r \in scenario.inserts \ db :
          db' = db \cup {r}
    /\ inserted' = inserted + 1
    /\ UNCHANGED restoreVars
    /\ UNCHANGED <<inputVars, coordVars, snapshot, sess, sinkVars, pool, queue,
                   workerVars, resultVars, histVars>>

(***************************************************************************)
(* Lines 96-107, pg_manager: with parallelism 1 every task runs on the     *)
(* coordinator's cursor; otherwise each worker opens its own connection    *)
(* and transaction and freezes it at the exported snapshot.                *)
(***************************************************************************)
\* Every worker handed the coordinator's cursor, whatever the parallelism.
SessionShared(w) == Coordinator

SessionOf(w) == IF params.parallelism = 1 THEN Coordinator ELSE w

\* A worker session that is opened and never frozen at the snapshot.
pg_manager_unfrozen == [open |-> TRUE, view |-> "live"]

pg_manager == [open |-> TRUE, view |-> "snapshot"]

AcquireSession(w) ==
    /\ pool = "running"
    /\ w <= params.parallelism
    /\ wpc[w] = "init"
    /\ wpc' = [wpc EXCEPT ![w] = "idle"]
    /\ sess' = IF params.parallelism = 1 THEN sess
               ELSE [sess EXCEPT ![w] = pg_manager]
    /\ UNCHANGED restoreVars
    /\ UNCHANGED <<inputVars, coordVars, dbVars, sinkVars, pool, queue, witem,
                   wfound, wnew, wseg, wtmp, resultVars, histVars>>

Pull(w) ==
    /\ pool = "running"
    /\ wpc[w] = "idle"
    /\ \E item \in queue :
          /\ queue' = queue \ {item}
          /\ witem' = [witem EXCEPT ![w] = item]
    /\ wpc' = [wpc EXCEPT ![w] = "discover"]
    /\ UNCHANGED restoreVars
    /\ UNCHANGED <<inputVars, coordVars, dbVars, sess, sinkVars, pool, wfound,
                   wnew, wseg, wtmp, resultVars, histVars>>

(***************************************************************************)
(* The discovery queries, as the session's view answers them.              *)
(***************************************************************************)
ToTable(item) ==
    IF item.kind = "root" THEN item.table
    ELSE IF item.direction = FORWARD
         THEN schema.references[item.reference].reference_table
         ELSE schema.references[item.reference].table

FromTable(item) ==
    IF item.direction = FORWARD
    THEN schema.references[item.reference].table
    ELSE schema.references[item.reference].reference_table

FromColumns(item) ==
    IF item.direction = FORWARD
    THEN schema.references[item.reference].columns
    ELSE schema.references[item.reference].reference_columns

ToColumns(item) ==
    IF item.direction = FORWARD
    THEN schema.references[item.reference].reference_columns
    ELSE schema.references[item.reference].columns

JoinMatch(a, from_columns, b, to_columns) ==
    \A i \in DOMAIN from_columns :
        /\ i \in DOMAIN to_columns
        /\ a.vals[from_columns[i]] /= Null
        /\ a.vals[from_columns[i]] = b.vals[to_columns[i]]

RootQuery(view, item) ==
    TidSeq({r.tid : r \in {x \in view : /\ x.table = item.table
                                        /\ x.vals.id \in item.condition}})

ReferenceQuery(view, item) ==
    TidSeq({b.tid : b \in
        {y \in view :
            /\ y.table = ToTable(item)
            /\ \E a \in view :
                  /\ a.table = FromTable(item)
                  /\ a.tid \in Range(item.segment.row_ids)
                  /\ JoinMatch(a, FromColumns(item), y, ToColumns(item))}})

\* The guard's comparison written "=" for "<>".
GuardQueryEqual(view, t, found_ids) ==
    {r.vals.account_id : r \in
        {x \in view : /\ x.table = t
                      /\ x.tid \in Range(found_ids)
                      /\ x.vals.account_id /= Null
                      /\ x.vals.account_id = GuardAccount}}

\* Lines 583-593: NULL <> 3439 is not true, so a NULL account_id passes.
GuardQuery(view, t, found_ids) ==
    {r.vals.account_id : r \in
        {x \in view : /\ x.table = t
                      /\ x.tid \in Range(found_ids)
                      /\ x.vals.account_id /= Null
                      /\ x.vals.account_id /= GuardAccount}}

DataQuery(view, t, ids) ==
    {r \in view : r.table = t /\ r.tid \in Range(ids)}

(***************************************************************************)
(* process_item, step by step.  A task that ends clears its locals.        *)
(***************************************************************************)
EndTask(w) ==
    /\ wpc' = [wpc EXCEPT ![w] = "idle"]
    /\ witem' = [witem EXCEPT ![w] = NoItem]
    /\ wfound' = [wfound EXCEPT ![w] = <<>>]
    /\ wnew' = [wnew EXCEPT ![w] = <<>>]
    /\ wseg' = [wseg EXCEPT ![w] = NoSegment]
    /\ wtmp' = [wtmp EXCEPT ![w] = {}]

\* found_ids is known: add runs only "if found_ids".
AfterFound(w, found_ids) ==
    IF found_ids = <<>>
    THEN EndTask(w)
    ELSE /\ wpc' = [wpc EXCEPT ![w] = "add"]
         /\ wfound' = [wfound EXCEPT ![w] = found_ids]
         /\ UNCHANGED <<witem, wnew, wseg, wtmp>>

DiscoverRoot(w) ==
    /\ wpc[w] = "discover"
    /\ pool = "running"
    /\ witem[w].kind = "root"
    /\ AfterFound(w, RootQuery(View(SessionOf(w)), witem[w]))
    /\ UNCHANGED restoreVars
    /\ UNCHANGED <<inputVars, coordVars, dbVars, sess, sinkVars, pool, queue,
                   resultVars, histVars>>

HasGuard(t) == "account_id" \in Range(schema.tables[t].columns)

\* A task raises: the pool fails, the waiting items are discarded.
TaskRaise(w, msg) ==
    /\ pool' = "failed"
    /\ queue' = {}
    /\ error' = IF error = "" THEN msg ELSE error
    /\ wpc' = [wpc EXCEPT ![w] = "stopped"]

\* Line 570: the database rejects a comparison of two row expressions of
\* unequal length, whatever the rows are.
JoinError(item) == Len(FromColumns(item)) /= Len(ToColumns(item))

DiscoverReference(w) ==
    /\ wpc[w] = "discover"
    /\ pool = "running"
    /\ witem[w].kind = "ref"
    /\ IF JoinError(witem[w])
       THEN /\ TaskRaise(w, "DatabaseError")
            /\ UNCHANGED <<witem, wfound, wnew, wseg, wtmp>>
       ELSE /\ LET found_ids == ReferenceQuery(View(SessionOf(w)), witem[w])
               IN  IF HasGuard(ToTable(witem[w]))
                   THEN /\ wpc' = [wpc EXCEPT ![w] = "guard"]
                        /\ wfound' = [wfound EXCEPT ![w] = found_ids]
                        /\ UNCHANGED <<witem, wnew, wseg, wtmp>>
                   ELSE AfterFound(w, found_ids)
            /\ UNCHANGED <<pool, queue, error>>
    /\ UNCHANGED restoreVars
    /\ UNCHANGED <<inputVars, pc, opened, schema, dbVars, sess, sinkVars,
                   resultVars, histVars>>

Guard(w) ==
    /\ wpc[w] = "guard"
    /\ pool = "running"
    /\ LET x == GuardQuery(View(SessionOf(w)), ToTable(witem[w]), wfound[w])
       IN  IF x /= {}
           THEN /\ TaskRaise(w, "Account")
                /\ UNCHANGED <<witem, wfound, wnew, wseg, wtmp>>
           ELSE /\ AfterFound(w, wfound[w])
                /\ UNCHANGED <<pool, queue, error>>
    /\ UNCHANGED restoreVars
    /\ UNCHANGED <<inputVars, pc, opened, schema, dbVars, sess, sinkVars,
                   resultVars, histVars>>

(***************************************************************************)
(* _DiscoveryResult.add.  The body runs under self._lock: the row-id set   *)
(* is read when the lock is taken and written before it is released.       *)
(***************************************************************************)
\* The lock left out: any caller enters at once.
LockIgnored(l) == TRUE

LockFree(l) == l = NoOwner

Existing(ids_by_table, t) ==
    IF t \in DOMAIN ids_by_table THEN ids_by_table[t] ELSE {}

\* IntSet.contains: one boolean per candidate.
Contains(existing_ids, ints) ==
    [i \in DOMAIN ints |-> ints[i] \in existing_ids]

\* No candidate filtered out: every found id counts as new.
NewIdsUnfiltered(existing_ids, found_ids) == found_ids

\* Lines 217-219: the candidates that are not known yet, in input order.
NewIds(existing_ids, found_ids) ==
    LET ints == [i \in DOMAIN found_ids |-> tid_to_int(found_ids[i])]
        contains == Contains(existing_ids, ints)
        RECURSIVE keep(_)
        keep(i) == IF i > Len(found_ids) THEN <<>>
                   ELSE IF contains[i] THEN keep(i + 1)
                   ELSE <<found_ids[i]>> \o keep(i + 1)
    IN  keep(1)

ManifestIndex(manifests, t) ==
    IF \E i \in DOMAIN manifests : manifests[i].id = t
    THEN CHOOSE i \in DOMAIN manifests : manifests[i].id = t
    ELSE 0

\* Lines 227-235: the table's manifest, created empty when absent.
WithManifest(manifests, t) ==
    IF ManifestIndex(manifests, t) = 0
    THEN Append(manifests, [id |-> t, segments |-> <<>>])
    ELSE manifests

\* The index taken after the append instead of before it.
SegmentIndexAfterAppend(table_manifest) == Len(table_manifest.segments) + 1

\* Line 238: the index of the segment about to be appended.
SegmentIndex(table_manifest) == Len(table_manifest.segments)

AddEnter(w) ==
    /\ wpc[w] = "add"
    /\ pool = "running"
    /\ LockFree(lock)
    /\ lock' = w
    /\ LET t == ToTable(witem[w])
       IN  /\ row_ids' = IF t \in DOMAIN row_ids THEN row_ids
                         ELSE row_ids @@ (t :> {})
           /\ wnew' = [wnew EXCEPT ![w] = NewIds(Existing(row_ids, t), wfound[w])]
    /\ wpc' = [wpc EXCEPT ![w] = "add_locked"]
    /\ UNCHANGED restoreVars
    /\ UNCHANGED <<inputVars, coordVars, dbVars, sess, sinkVars, pool, queue,
                   witem, wfound, wseg, wtmp, id_count, table_manifests,
                   histVars>>

\* The test of line 221 left out: add goes on with no new id.
NoneNewUnchecked(new_ids) == FALSE

\* Line 221: "if not new_ids".
NoneNew(new_ids) == new_ids = <<>>

AddReturnNone(w) ==
    /\ wpc[w] = "add_locked"
    /\ pool = "running"
    /\ NoneNew(wnew[w])
    /\ lock' = NoOwner
    /\ EndTask(w)
    /\ UNCHANGED restoreVars
    /\ UNCHANGED <<inputVars, coordVars, dbVars, sess, sinkVars, pool, queue,
                   row_ids, id_count, table_manifests, histVars>>

AddReturnSegment(w) ==
    /\ wpc[w] = "add_locked"
    /\ pool = "running"
    /\ ~ NoneNew(wnew[w])
    /\ LET t == ToTable(witem[w])
           new_ids == wnew[w]
           manifests == WithManifest(table_manifests, t)
           m == ManifestIndex(manifests, t)
           segment == _TableSegment(t, new_ids, SegmentIndex(manifests[m]))
       IN  /\ row_ids' = [row_ids EXCEPT ![t] =
                            @ \cup {tid_to_int(new_ids[i]) : i \in DOMAIN new_ids}]
           /\ id_count' = id_count + Len(new_ids)
           /\ table_manifests' =
                [manifests EXCEPT ![m].segments =
                    Append(@, [row_count |-> Len(new_ids)])]
           /\ wseg' = [wseg EXCEPT ![w] = segment]
           /\ add_log' = Append(add_log, [segment |-> segment, via |-> witem[w]])
    /\ lock' = NoOwner
    /\ wpc' = [wpc EXCEPT ![w] = "yield"]
    /\ UNCHANGED restoreVars
    /\ UNCHANGED <<inputVars, coordVars, dbVars, sess, sinkVars, pool, queue,
                   witem, wfound, wnew, wtmp, emitted>>

\* Every enabled direction of every reference, the traversed edge included.
_table_items_backtracking(segment, reference_item) ==
    LET t == schema.tables[segment.table]
    IN  {_ReferenceItem(segment, r, FORWARD) :
            r \in {x \in Range(t.references) :
                     FORWARD \in schema.references[x].directions}}
          \cup {_ReferenceItem(segment, r, REVERSE) :
                  r \in {x \in Range(t.reverse_references) :
                           REVERSE \in schema.references[x].directions}}

\* The directions of a reference not looked at: both are traversed.
_table_items_any_direction(segment, reference_item) ==
    LET t == schema.tables[segment.table]
        forward ==
          {r \in Range(t.references) :
             ~ (/\ reference_item.kind = "ref"
                /\ r = reference_item.reference
                /\ reference_item.direction = REVERSE)}
        reverse ==
          {r \in Range(t.reverse_references) :
             ~ (/\ reference_item.kind = "ref"
                /\ r = reference_item.reference
                /\ reference_item.direction = FORWARD)}
    IN  {_ReferenceItem(segment, r, FORWARD) : r \in forward}
          \cup {_ReferenceItem(segment, r, REVERSE) : r \in reverse}

(***************************************************************************)
(* _table_items: the successor items of a new segment.                     *)
(***************************************************************************)
_table_items(segment, reference_item) ==
    LET t == schema.tables[segment.table]
        forward ==
          {r \in Range(t.references) :
             /\ FORWARD \in schema.references[r].directions
             /\ ~ (/\ reference_item.kind = "ref"
                   /\ r = reference_item.reference
                   /\ reference_item.direction = REVERSE)}
        reverse ==
          {r \in Range(t.reverse_references) :
             /\ REVERSE \in schema.references[r].directions
             /\ ~ (/\ reference_item.kind = "ref"
                   /\ r = reference_item.reference
                   /\ reference_item.direction = FORWARD)}
    IN  {_ReferenceItem(segment, r, FORWARD) : r \in forward}
          \cup {_ReferenceItem(segment, r, REVERSE) : r \in reverse}

\* The sink's segment opened first and the COPY out of the database run
\* into it directly, with no scratch file.
StageAfterNoScratch(stage) ==
    CASE stage = "yield" -> "open_segment"
      [] stage = "open_segment" -> "extract"
      [] stage = "extract" -> "copy"

\* Lines 308-312: after the yields, _dump_data fills the scratch file, then
\* the sink's segment is opened and the file copied into it.
StageAfter(stage) ==
    CASE stage = "yield" -> "extract"
      [] stage = "extract" -> "open_segment"
      [] stage = "open_segment" -> "copy"

Yield(w) ==
    /\ wpc[w] = "yield"
    /\ pool = "running"
    /\ LET new_items == _table_items(wseg[w], witem[w])
       IN  /\ queue' = queue \cup new_items
           /\ emitted' = emitted \cup new_items
    /\ wpc' = [wpc EXCEPT ![w] = StageAfter("yield")]
    /\ UNCHANGED restoreVars
    /\ UNCHANGED <<inputVars, coordVars, dbVars, sess, sinkVars, pool, witem,
                   wfound, wnew, wseg, wtmp, resultVars, add_log>>

(***************************************************************************)
(* Lines 308-312: COPY the segment's rows into a scratch file, then open   *)
(* the sink's segment stream under the sink's lock and copy the file in.   *)
(***************************************************************************)
\* The sink's lock left out: any writer opens its stream at once.
SinkLockIgnored(l) == TRUE

SinkLockFree(l) == l = NoOwner

Extract(w) ==
    /\ wpc[w] = "extract"
    /\ pool = "running"
    /\ wtmp' = [wtmp EXCEPT ![w] =
                  DataQuery(View(SessionOf(w)), ToTable(witem[w]), wseg[w].row_ids)]
    /\ wpc' = [wpc EXCEPT ![w] = StageAfter("extract")]
    /\ UNCHANGED restoreVars
    /\ UNCHANGED <<inputVars, coordVars, dbVars, sess, sinkVars, pool, queue,
                   witem, wfound, wnew, wseg, resultVars, histVars>>

OpenSegment(w) ==
    /\ wpc[w] = "open_segment"
    /\ pool = "running"
    /\ SinkLockFree(sink_lock)
    /\ sink_lock' = w
    /\ output' = [output EXCEPT !.stream = wseg[w]]
    /\ wpc' = [wpc EXCEPT ![w] = StageAfter("open_segment")]
    /\ UNCHANGED restoreVars
    /\ UNCHANGED <<inputVars, coordVars, dbVars, sess, pool, queue, witem,
                   wfound, wnew, wseg, wtmp, resultVars, histVars>>

\* Every segment of a table stored under the same key.
PayloadUnindexed(segment, rows) ==
    [table |-> segment.table, index |-> 0, rows |-> rows]

\* The stream is opened under (segment.table.id, segment.index) and the
\* scratch file copied into it.
Payload(segment, rows) ==
    [table |-> segment.table, index |-> segment.index, rows |-> rows]

CopyClose(w) ==
    /\ wpc[w] = "copy"
    /\ pool = "running"
    /\ output' = [output EXCEPT
                    !.segments = Append(@, Payload(wseg[w], wtmp[w])),
                    !.stream = NoSegment]
    /\ sink_lock' = NoOwner
    /\ EndTask(w)
    /\ UNCHANGED restoreVars
    /\ UNCHANGED <<inputVars, coordVars, dbVars, sess, pool, queue,
                   resultVars, histVars>>

(***************************************************************************)
(* A database or sink error inside a task: the discovery query, the COPY   *)
(* out of the database or the write into the open segment stream raises.   *)
(* Leaving "with self._lock, ..." releases the sink's lock on every path.  *)
(***************************************************************************)
FaultStages == {"discover", "extract", "copy"}

SinkReleased(l, w) == IF l = w THEN NoOwner ELSE l

TaskFault(w) ==
    /\ pool = "running"
    /\ wpc[w] \in FaultStages
    /\ TaskRaise(w, IF wpc[w] = "copy" THEN "SinkError" ELSE "DatabaseError")
    /\ sink_lock' = SinkReleased(sink_lock, w)
    /\ output' = IF sink_lock = w THEN [output EXCEPT !.stream = NoSegment]
                 ELSE output
    /\ UNCHANGED restoreVars
    /\ UNCHANGED <<inputVars, pc, opened, schema, dbVars, sess, witem, wfound,
                   wnew, wseg, wtmp, resultVars, histVars>>

(***************************************************************************)
(* The runner after a failure: in-flight tasks are cancelled at their next *)
(* step, releasing the locks they hold.                                    *)
(***************************************************************************)
InFlight(w) == wpc[w] \notin {"init", "idle", "stopped"}

Cancel(w) ==
    /\ pool = "failed"
    /\ InFlight(w)
    /\ wpc' = [wpc EXCEPT ![w] = "stopped"]
    /\ lock' = IF lock = w THEN NoOwner ELSE lock
    /\ sink_lock' = SinkReleased(sink_lock, w)
    /\ output' = IF sink_lock = w THEN [output EXCEPT !.stream = NoSegment]
                 ELSE output
    /\ UNCHANGED restoreVars
    /\ UNCHANGED <<inputVars, coordVars, dbVars, sess, pool, queue, witem,
                   wfound, wnew, wseg, wtmp, row_ids, id_count,
                   table_manifests, histVars>>

(***************************************************************************)
(* runner.run returns when the queue is empty and no worker is processing, *)
(* or raises the first error once the workers have stopped.                *)
(***************************************************************************)
\* An error of the pool taken for a return: dump() goes on to its last lines.
AfterDumpRowsSwallowed(raised) == "close_conn"

\* Line 109: an exception out of _dump_rows leaves dump() through its with
\* blocks; lines 111-117 run only when _dump_rows has returned.
AfterDumpRows(raised) == IF raised THEN "failed" ELSE "close_conn"

CloseWorkerSessions ==
    [s \in DOMAIN sess |-> IF s = Coordinator THEN sess[s] ELSE ClosedSession]

DumpRowsReturn ==
    /\ pc = "run"
    /\ pool = "running"
    /\ queue = {}
    /\ \A w \in Workers : ~ InFlight(w)
    /\ pool' = "done"
    /\ sess' = CloseWorkerSessions
    /\ pc' = AfterDumpRows(FALSE)
    /\ UNCHANGED restoreVars
    /\ UNCHANGED <<inputVars, error, opened, schema, dbVars, sinkVars, queue,
                   workerVars, resultVars, histVars>>

DumpRowsRaise ==
    /\ pc = "run"
    /\ pool = "failed"
    /\ \A w \in Workers : ~ InFlight(w)
    /\ pc' = AfterDumpRows(TRUE)
    /\ sess' = [s \in DOMAIN sess |-> ClosedSession]
    /\ output' = [output EXCEPT !.open = FALSE]
    /\ UNCHANGED restoreVars
    /\ UNCHANGED <<inputVars, error, opened, schema, dbVars, sink_lock, pool,
                   queue, workerVars, resultVars, histVars>>

\* The with block of line 92 ends: the coordinator's transaction commits.
CloseConn ==
    /\ pc = "close_conn"
    /\ sess' = [sess EXCEPT ![Coordinator] = ClosedSession]
    /\ pc' = "finish"
    /\ UNCHANGED restoreVars
    /\ UNCHANGED <<inputVars, error, opened, schema, dbVars, sinkVars, pool,
                   queue, workerVars, resultVars, histVars>>

\* Lines 111-117: the manifest (slice) or the post-data section (SQL).
Finish ==
    /\ pc = "finish"
    /\ output' = [output EXCEPT
                    !.manifest = IF params.output_type = SLICE
                                 THEN table_manifests ELSE @,
                    !.manifest_written = (params.output_type = SLICE),
                    !.postdata = (params.output_type = SQL
                                  /\ params.include_schema),
                    !.open = FALSE]
    /\ pc' = "done"
    /\ UNCHANGED restoreVars
    /\ UNCHANGED <<inputVars, error, opened, schema, dbVars, sess, sink_lock,
                   pool, queue, workerVars, resultVars, histVars>>

WorkerStep(w) ==
    \/ AcquireSession(w)
    \/ Pull(w)
    \/ DiscoverRoot(w)
    \/ DiscoverReference(w)
    \/ Guard(w)
    \/ AddEnter(w)
    \/ AddReturnNone(w)
    \/ AddReturnSegment(w)
    \/ Yield(w)
    \/ Extract(w)
    \/ OpenSegment(w)
    \/ CopyClose(w)
    \/ TaskFault(w)
    \/ Cancel(w)

DumpStep ==
    \/ ValidateParams
    \/ LoadSchema
    \/ ResolveRoots
    \/ OpenOutput
    \/ OpenConn
    \/ DumpRows
    \/ InsertRow
    \/ \E w \in Workers : WorkerStep(w)
    \/ DumpRowsReturn
    \/ DumpRowsRaise
    \/ CloseConn
    \/ Finish


(***************************************************************************)
(* restore(): the archive a finished slice dump wrote is loaded into an    *)
(* empty destination database of the same schema.  Every reference of the  *)
(* schema is a foreign key there, deferrable or not.                       *)
(***************************************************************************)
RestoreParams == [parallelism : 1..MaxParallelism, transaction : BOOLEAN]

ReferenceIds == DOMAIN schema.references

ForeignKey(r, deferrable) ==
    [name |-> r, deferrable |-> deferrable,
     table |-> schema.references[r].table,
     reference_table |-> schema.references[r].reference_table]

\* A key is NOT DEFERRABLE ("immediate"), DEFERRABLE INITIALLY IMMEDIATE
\* ("deferrable") or DEFERRABLE INITIALLY DEFERRED ("deferred").
KeyKinds == {"immediate", "deferrable", "deferred"}

DestinationKeys == {ForeignKey(r, fk_kind[r] /= "immediate") : r \in ReferenceIds}

RestoreStart ==
    /\ pc = "done"
    /\ params.output_type = SLICE
    /\ rpc = "none"
    /\ rpc' = "start"
    /\ rparams' \in RestoreParams
    /\ fk_kind' \in [ReferenceIds -> KeyKinds]
    /\ UNCHANGED <<rerror, ropened, items, constraints, deferred_in, istate,
                   rworkerVars, destVars>>
    /\ UNCHANGED dumpVars

RestoreRaise(msg) == /\ rpc' = "failed"
                     /\ rerror' = msg

RestoreConfigConflict(p) == p.parallelism > 1 /\ p.transaction

RestoreValidate ==
    /\ rpc = "start"
    /\ IF RestoreConfigConflict(rparams)
       THEN RestoreRaise("A single transaction must be disabled for parallelism > 1")
       ELSE rpc' = "open_archive" /\ rerror' = rerror
    /\ UNCHANGED <<rparams, ropened, fk_kind, items, constraints, deferred_in,
                   istate, rworkerVars, destVars>>
    /\ UNCHANGED dumpVars

\* Lines 37-42: the manifest is read and one RestoreItem made per table.
OpenArchive ==
    /\ rpc = "open_archive"
    /\ ropened' = ropened \cup {"archive"}
    /\ items' = output.manifest
    /\ rpc' = "open_conn"
    /\ UNCHANGED <<rparams, rerror, fk_kind, constraints, deferred_in, istate,
                   rworkerVars, destVars>>
    /\ UNCHANGED dumpVars

RestoreOpenConn ==
    /\ rpc = "open_conn"
    /\ ropened' = ropened \cup {"conn"}
    /\ rpc' = "constraints"
    /\ UNCHANGED <<rparams, rerror, fk_kind, items, constraints, deferred_in,
                   istate, rworkerVars, destVars>>
    /\ UNCHANGED dumpVars

ItemIds(its) == {its[i].id : i \in DOMAIN its}

\* The catalog query: the foreign keys between two tables of the manifest.
get_constaints(manifest_tables) ==
    {c \in DestinationKeys : /\ c.table \in ItemIds(manifest_tables)
                             /\ c.reference_table \in ItemIds(manifest_tables)}

\* Lines 59-68: the deferrable constraints are deferred on the coordinator's
\* cursor, that is in the coordinator's transaction.
GetConstraints ==
    /\ rpc = "constraints"
    /\ constraints' = get_constaints(items)
    /\ deferred_in' = IF \E c \in constraints' : c.deferrable
                      THEN {Coordinator} ELSE {}
    /\ rpc' = "run"
    /\ UNCHANGED <<rparams, rerror, ropened, fk_kind, items, istate,
                   rworkerVars, destVars>>
    /\ UNCHANGED dumpVars

\* The filter of line 71 inverted: the deferrable constraints order the items.
DepsOfDeferrable(cs, t) ==
    {c.reference_table : c \in {x \in cs : x.deferrable /\ x.table = t}}

\* A table's reference to itself left out of its dependencies.
DepsWithoutSelf(cs, t) ==
    {c.reference_table : c \in {x \in cs : ~ x.deferrable /\ x.table = t}} \ {t}

\* Lines 70-80: an item depends on the items of the tables that its
\* non-deferrable constraints reference.
Deps(cs, t) == {c.reference_table : c \in {x \in cs : ~ x.deferrable /\ x.table = t}}

RECURSIVE ReachableFrom(_, _, _)
ReachableFrom(cs, from, n) ==
    IF n = 0 THEN from
    ELSE ReachableFrom(cs, from \cup UNION {Deps(cs, t) : t \in from}, n - 1)

\* The items that t depends on, directly or not.
DepsClosure(cs, its, t) == ReachableFrom(cs, Deps(cs, t), Len(its))

HasCycle(cs, its) == \E t \in ItemIds(its) : t \in DepsClosure(cs, its, t)

\* GraphRunner.run: cycles are refused at startup.
RunStart ==
    /\ rpc = "run"
    /\ IF HasCycle(constraints, items)
       THEN RestoreRaise("CycleDetected") /\ istate' = istate
       ELSE /\ rpc' = "running"
            /\ rerror' = rerror
            /\ istate' = [t \in ItemIds(items) |-> "waiting"]
    /\ UNCHANGED <<rparams, ropened, fk_kind, items, constraints, deferred_in,
                   rworkerVars, destVars>>
    /\ UNCHANGED dumpVars

(***************************************************************************)
(* cur_factory: in single-transaction mode a task runs on the coordinator's*)
(* cursor and transaction; otherwise on a transaction of its worker's own  *)
(* connection, committed when the task ends.                               *)
(***************************************************************************)
\* A transaction per task in either mode.
TxnPerTask(w) == w

TxnOf(w) == IF rparams.transaction THEN Coordinator ELSE w

Ready(t) == istate[t] = "waiting" /\ \A d \in Deps(constraints, t) : istate[d] = "done"

BeginTask(w) ==
    /\ rpc = "running"
    /\ w <= rparams.parallelism
    /\ rwpc[w] = "idle"
    /\ \E t \in ItemIds(items) :
          /\ Ready(t)
          /\ istate' = [istate EXCEPT ![t] = "running"]
          /\ rwitem' = [rwitem EXCEPT ![w] = t]
    /\ rwnext' = [rwnext EXCEPT ![w] = 0]
    /\ rwpc' = [rwpc EXCEPT ![w] = "copy"]
    /\ UNCHANGED <<rcoordVars, destVars>>
    /\ UNCHANGED dumpVars

ItemOf(t) == items[CHOOSE i \in DOMAIN items : items[i].id = t]

\* SliceReader.open_segment: the payload stored under (table id, index).
ArchiveSegment(t, i) ==
    LET found == {k \in DOMAIN output.segments :
                     output.segments[k].table = t /\ output.segments[k].index = i}
    IN  IF found = {} THEN {}
        ELSE {[table |-> r.table, vals |-> r.vals] :
                r \in output.segments[CHOOSE k \in found : TRUE].rows}

\* A row satisfies a foreign key when its columns are NULL or match a row of
\* the referenced table that the transaction can see.
Satisfies(row, r, visible) ==
    \/ \E i \in DOMAIN schema.references[r].columns :
          row.vals[schema.references[r].columns[i]] = Null
    \/ \E parent \in visible :
          /\ parent.table = schema.references[r].reference_table
          /\ JoinMatch(row, schema.references[r].columns, parent,
                       schema.references[r].reference_columns)

Violations(rows, visible, keys) ==
    {row \in rows : \E c \in keys : /\ c.table = row.table
                                    /\ ~ Satisfies(row, c.name, visible)}

\* The keys checked at the end of a statement of transaction x, and those
\* checked when x commits.
IsDeferredIn(c, x) ==
    c.deferrable /\ (fk_kind[c.name] = "deferred" \/ x \in deferred_in)

ImmediateKeys(x) == {c \in DestinationKeys : ~ IsDeferredIn(c, x)}

DeferredKeys(x) == {c \in DestinationKeys : IsDeferredIn(c, x)}

\* The dependents of a failed item, direct or not, are abandoned.
Abandon(states, t) ==
    [u \in DOMAIN states |->
        IF u = t THEN "failed"
        ELSE IF states[u] = "waiting" /\ t \in DepsClosure(constraints, items, u)
             THEN "abandoned"
        ELSE states[u]]

\* The loop of Restore.process left after the first segment.
SegmentCountFirstOnly(item) == 1

\* Line 98: the loop runs over enumerate(item.table.segments).
SegmentCount(item) == Len(item.segments)

\* update_data: COPY segment rwnext of the item into its table.
CopySegment(w) ==
    /\ rpc = "running"
    /\ rwpc[w] = "copy"
    /\ rwnext[w] < SegmentCount(ItemOf(rwitem[w]))
    /\ LET x == TxnOf(w)
           rows == ArchiveSegment(rwitem[w], rwnext[w])
           visible == dest \cup pending[x] \cup rows
       IN  IF x \in aborted \/ Violations(rows, visible, ImmediateKeys(x)) /= {}
           THEN /\ istate' = Abandon(istate, rwitem[w])
                /\ pending' = [pending EXCEPT ![x] = {}]
                /\ aborted' = IF x = Coordinator THEN aborted \cup {x} ELSE aborted
                /\ rwpc' = [rwpc EXCEPT ![w] = "idle"]
                /\ rwitem' = [rwitem EXCEPT ![w] = ""]
                /\ rwnext' = [rwnext EXCEPT ![w] = 0]
           ELSE /\ pending' = [pending EXCEPT ![x] = @ \cup rows]
                /\ rwnext' = [rwnext EXCEPT ![w] = @ + 1]
                /\ UNCHANGED <<istate, aborted, rwpc, rwitem>>
    /\ UNCHANGED <<rcoordVars, dest>>
    /\ UNCHANGED dumpVars

\* The task's with block ends: its own transaction commits; in
\* single-transaction mode nothing is committed here.
EndRestoreTask(w) ==
    /\ rpc = "running"
    /\ rwpc[w] = "copy"
    /\ rwnext[w] = SegmentCount(ItemOf(rwitem[w]))
    /\ LET x == TxnOf(w)
       IN  IF x = Coordinator
           THEN /\ istate' = [istate EXCEPT ![rwitem[w]] = "done"]
                /\ UNCHANGED <<pending, dest>>
           ELSE IF Violations(pending[x], dest \cup pending[x], DeferredKeys(x)) /= {}
           THEN /\ istate' = Abandon(istate, rwitem[w])
                /\ pending' = [pending EXCEPT ![x] = {}]
                /\ dest' = dest
           ELSE /\ istate' = [istate EXCEPT ![rwitem[w]] = "done"]
                /\ dest' = dest \cup pending[x]
                /\ pending' = [pending EXCEPT ![x] = {}]
    /\ rwpc' = [rwpc EXCEPT ![w] = "idle"]
    /\ rwitem' = [rwitem EXCEPT ![w] = ""]
    /\ rwnext' = [rwnext EXCEPT ![w] = 0]
    /\ UNCHANGED <<rcoordVars, aborted>>
    /\ UNCHANGED dumpVars

\* runner.run ends when no item can run any more; it raises if one failed.
RunEnd ==
    /\ rpc = "running"
    /\ \A w \in Workers : rwpc[w] = "idle"
    /\ \A t \in ItemIds(items) : ~ Ready(t)
    /\ IF \E t \in ItemIds(items) : istate[t] /= "done"
       THEN /\ RestoreRaise("task failed")
            /\ pending' = [pending EXCEPT ![Coordinator] = {}]
       ELSE /\ rpc' = "commit"
            /\ rerror' = rerror
            /\ pending' = pending
    /\ UNCHANGED <<rparams, ropened, fk_kind, items, constraints, deferred_in,
                   istate, rworkerVars, aborted, dest>>
    /\ UNCHANGED dumpVars

\* The with block of line 44 ends: the coordinator's transaction commits.
RestoreCommit ==
    /\ rpc = "commit"
    /\ LET x == Coordinator
       IN  IF Violations(pending[x], dest \cup pending[x], DeferredKeys(x)) /= {}
           THEN /\ RestoreRaise("constraint violated at commit")
                /\ dest' = dest
           ELSE /\ rpc' = "done"
                /\ rerror' = rerror
                /\ dest' = dest \cup pending[x]
    /\ pending' = [pending EXCEPT ![Coordinator] = {}]
    /\ UNCHANGED <<rparams, ropened, fk_kind, items, constraints, deferred_in,
                   istate, rworkerVars, aborted>>
    /\ UNCHANGED dumpVars

RestoreStep ==
    \/ RestoreStart
    \/ RestoreValidate
    \/ OpenArchive
    \/ RestoreOpenConn
    \/ GetConstraints
    \/ RunStart
    \/ \E w \in Workers : BeginTask(w) \/ CopySegment(w) \/ EndRestoreTask(w)
    \/ RunEnd
    \/ RestoreCommit

Next == DumpStep \/ RestoreStep

Spec == Init /\ [][Next]_vars

\* Fair scheduling: a dump step that stays possible is eventually taken.
FairSpec == Spec /\ WF_vars(DumpStep)

\* The same for the restore's coordinator and workers.
FairRestoreSpec == Spec /\ WF_vars(RestoreStep)

(***************************************************************************)
(* _DiscoveryResult.add on its own: a fresh result, and threads that call  *)
(* add with any table of the schema and any list of candidate row ids, a   *)
(* list that names a row id twice included.                                *)
(***************************************************************************)
CandidateTids == {<<0, 1>>, <<0, 2>>}

CandidateLists == UNION {[1..n -> CandidateTids] : n \in 0..MaxCandidates}

AddInit ==
    /\ scenario \in {s \in Scenarios : s.name = "CO"}
    /\ root_configs = <<>>
    /\ params = [include_schema |-> FALSE, parallelism |-> MaxParallelism,
                 output_type |-> SLICE]
    /\ pc = "run"
    /\ error = ""
    /\ opened = {"schema_file", "output", "conn"}
    /\ schema = Schema(scenario.desc)
    /\ db = scenario.rows
    /\ inserted = 0
    /\ snapshot = scenario.rows
    /\ sess = [s \in {Coordinator} \cup Workers |-> pg_manager]
    /\ output = [NoOutput EXCEPT !.open = TRUE]
    /\ sink_lock = NoOwner
    /\ pool = "running"
    /\ queue = {}
    /\ wpc = [w \in Workers |-> "idle"]
    /\ witem = [w \in Workers |-> NoItem]
    /\ wfound = [w \in Workers |-> <<>>]
    /\ wnew = [w \in Workers |-> <<>>]
    /\ wseg = [w \in Workers |-> NoSegment]
    /\ wtmp = [w \in Workers |-> {}]
    /\ row_ids = [t \in {} |-> {}]
    /\ id_count = 0
    /\ table_manifests = <<>>
    /\ lock = NoOwner
    /\ add_log = <<>>
    /\ emitted = {}
    /\ RestoreIdle

\* result.add(table, row_ids) is called.
AddCall(w) ==
    /\ wpc[w] = "idle"
    /\ \E t \in DOMAIN schema.tables, candidates \in CandidateLists :
          /\ witem' = [witem EXCEPT ![w] = _RootItem(0, t, {})]
          /\ wfound' = [wfound EXCEPT ![w] = candidates]
    /\ wpc' = [wpc EXCEPT ![w] = "add"]
    /\ UNCHANGED restoreVars
    /\ UNCHANGED <<inputVars, coordVars, dbVars, sess, sinkVars, pool, queue,
                   wnew, wseg, wtmp, resultVars, histVars>>

\* Line 242: the caller has the segment and drops it.
AddReturned(w) ==
    /\ wpc[w] = "yield"
    /\ EndTask(w)
    /\ UNCHANGED restoreVars
    /\ UNCHANGED <<inputVars, coordVars, dbVars, sess, sinkVars, pool, queue,
                   resultVars, histVars>>

AddStep(w) ==
    \/ AddCall(w)
    \/ AddEnter(w)
    \/ AddReturnNone(w)
    \/ AddReturnSegment(w)
    \/ AddReturned(w)

AddNext == \E w \in Workers : AddStep(w)

AddSpec == AddInit /\ [][AddNext]_vars

(***************************************************************************)
(* Observations used by the properties below.                              *)
(***************************************************************************)
OutputRows == UNION {output.segments[k].rows : k \in DOMAIN output.segments}

LoggedSegments(t) ==
    SelectSeq(add_log, LAMBDA e : e.segment.table = t)

SegmentRows(segment) == Range(segment.row_ids)

References == scenario.desc.references

\* Rows that row r references through reference configuration rc.
Referenced(r, rc, rows) ==
    {x \in rows : /\ x.table = rc.reference_table
                  /\ JoinMatch(r, rc.columns, x, rc.reference_columns)}

\* Rows that reference row r through reference configuration rc.
Referencing(r, rc, rows) ==
    {x \in rows : /\ x.table = rc.table
                  /\ JoinMatch(x, rc.columns, r, rc.reference_columns)}

(***************************************************************************)
(* C1. Referential closure: when a dump ends without error, every row the  *)
(* snapshot holds that an output row references through a reference with   *)
(* FORWARD enabled is in the output, and so is every row that references   *)
(* an output row through a reference with REVERSE enabled.                 *)
(***************************************************************************)
C1_ReferentialClosure ==
    pc = "done" =>
        \A r \in OutputRows : \A k \in DOMAIN References :
            LET rc == References[k]
            IN  /\ (FORWARD \in rc.directions /\ r.table = rc.table)
                      => Referenced(r, rc, snapshot) \subseteq OutputRows
                /\ (REVERSE \in rc.directions /\ r.table = rc.reference_table)
                      => Referencing(r, rc, snapshot) \subseteq OutputRows

(***************************************************************************)
(* C2. Deduplication: no row identifier is in the row_ids of two segments  *)
(* of the same table, and the candidates an add call holds as new while it *)
(* has the lock are in no segment returned so far: a row reached by two    *)
(* paths is in the segment of the call that took the lock first only.      *)
(***************************************************************************)
C2_Deduplication ==
    /\ \A i, j \in DOMAIN add_log :
          (i /= j /\ add_log[i].segment.table = add_log[j].segment.table)
             => SegmentRows(add_log[i].segment)
                  \cap SegmentRows(add_log[j].segment) = {}
    /\ \A w \in Workers : \A i \in DOMAIN add_log :
          (wpc[w] = "add_locked"
             /\ add_log[i].segment.table = ToTable(witem[w]))
             => Range(wnew[w]) \cap SegmentRows(add_log[i].segment) = {}

\* Two add calls for one table, the later one with a candidate the earlier
\* segment holds: the later segment leaves that row out.
C2_Witness ==
    \E i, j \in DOMAIN add_log :
        /\ i < j
        /\ add_log[i].segment.table = add_log[j].segment.table
        /\ add_log[j].via.kind = "ref"
        /\ Range(ReferenceQuery(snapshot, add_log[j].via))
             \cap SegmentRows(add_log[i].segment) /= {}

(***************************************************************************)
(* C3. Segment index contiguity: for every table the k-th segment add      *)
(* returned has index k - 1, the table's manifest lists as many segments   *)
(* as add returned, and the manifest entry at position i holds the         *)
(* row_count of the segment with index i.                                  *)
(***************************************************************************)
C3_IndexContiguity ==
    \A t \in {add_log[i].segment.table : i \in DOMAIN add_log}
             \cup ItemIds(table_manifests) :
        LET segs == LoggedSegments(t)
            m == ManifestIndex(table_manifests, t)
        IN  /\ m /= 0
            /\ Len(table_manifests[m].segments) = Len(segs)
            /\ {segs[k].segment.index : k \in DOMAIN segs} = 0..(Len(segs) - 1)
            /\ \A k \in DOMAIN segs :
                  /\ segs[k].segment.index = k - 1
                  /\ table_manifests[m].segments[segs[k].segment.index + 1].row_count
                       = Len(segs[k].segment.row_ids)

\* A table with two segments, handed out to different tasks.
C3_Witness ==
    \E t \in ItemIds(table_manifests) :
        /\ Len(table_manifests[ManifestIndex(table_manifests, t)].segments) >= 2
        /\ Len(LoggedSegments(t)) >= 2

(***************************************************************************)
(* C7. Anti-backtrack: no item yielded from a segment that a task produced *)
(* through reference R in direction D is for R in the other direction; a   *)
(* root segment that has yielded has yielded every enabled direction of    *)
(* every reference of its table.                                           *)
(***************************************************************************)
Opposite(d) == IF d = FORWARD THEN REVERSE ELSE FORWARD

LogEntryOf(segment) ==
    add_log[CHOOSE i \in DOMAIN add_log : add_log[i].segment = segment]

EnabledItems(segment) ==
    {_ReferenceItem(segment, References[k].id, FORWARD) :
        k \in {x \in DOMAIN References :
                 /\ References[x].table = segment.table
                 /\ FORWARD \in References[x].directions}}
      \cup {_ReferenceItem(segment, References[k].id, REVERSE) :
              k \in {x \in DOMAIN References :
                       /\ References[x].reference_table = segment.table
                       /\ REVERSE \in References[x].directions}}

HasYielded(segment) ==
    \A w \in Workers : ~ (wseg[w] = segment /\ wpc[w] \in {"yield", "stopped"})

C7_AntiBacktrack ==
    /\ \A it \in emitted :
          /\ \E i \in DOMAIN add_log : add_log[i].segment = it.segment
          /\ LET via == LogEntryOf(it.segment).via
             IN  via.kind = "ref"
                   => ~ (it.reference = via.reference
                           /\ it.direction = Opposite(via.direction))
    /\ \A i \in DOMAIN add_log :
          (add_log[i].via.kind = "root" /\ HasYielded(add_log[i].segment))
             => EnabledItems(add_log[i].segment) \subseteq emitted

\* A segment reached through a reference with both directions enabled has
\* yielded: the same direction goes on, the inverse is left out.
C7_Witness ==
    \E i \in DOMAIN add_log :
        LET e == add_log[i]
        IN  /\ e.via.kind = "ref"
            /\ HasYielded(e.segment)
            /\ _ReferenceItem(e.segment, e.via.reference, Opposite(e.via.direction))
                 \in EnabledItems(e.segment)
            /\ \E it \in emitted : it.segment = e.segment

(***************************************************************************)
(* C4. Restore ordering: for every non-deferrable foreign key between two  *)
(* tables of the manifest, the child's item has started only if the        *)
(* parent's item is done, and while the child's item runs every row of the *)
(* parent's segments is in the destination or copied in the transaction.   *)
(***************************************************************************)
Started(t) == t \in DOMAIN istate /\ istate[t] \in {"running", "done", "failed"}

ArchiveRows(t) ==
    UNION {ArchiveSegment(t, i) :
             i \in 0..(Len(ItemOf(t).segments) - 1)}

C4_RestoreOrdering ==
    rpc \notin {"none", "start", "open_archive"} =>
        \A c \in DestinationKeys :
            (/\ ~ c.deferrable
             /\ c.table \in ItemIds(items)
             /\ c.reference_table \in ItemIds(items)
             /\ Started(c.table))
               => /\ istate[c.reference_table] = "done"
                  /\ istate[c.table] = "running"
                       => ArchiveRows(c.reference_table)
                            \subseteq dest \cup pending[Coordinator]

\* Two workers, a parent of two segments loaded, its child being loaded.
C4_Witness ==
    /\ rpc = "running"
    /\ rparams.parallelism > 1
    /\ \E c \in constraints :
          /\ ~ c.deferrable
          /\ c.table /= c.reference_table
          /\ istate[c.table] = "running"
          /\ istate[c.reference_table] = "done"
          /\ Len(ItemOf(c.reference_table).segments) >= 2

(***************************************************************************)
(* C5. Snapshot atomicity: with parallelism above 1 a worker that runs a   *)
(* task has its own open session frozen at the coordinator's snapshot, the *)
(* coordinator's transaction is open as long as the pool runs or a worker  *)
(* session is open, every discovered row id and every output row is a row  *)
(* of the snapshot, and the finished output is the snapshot's rows of the  *)
(* discovered ids.                                                         *)
(***************************************************************************)
SnapshotTids(t) == {r.tid : r \in {x \in snapshot : x.table = t}}

C5_SnapshotAtomicity ==
    params.parallelism > 1 =>
        /\ \A w \in Workers :
              (InFlight(w) /\ pool = "running")
                 => sess[w].open /\ sess[w].view = "snapshot"
        /\ (pool = "running" \/ \E w \in Workers : sess[w].open)
              => sess[Coordinator].open
        /\ \A i \in DOMAIN add_log :
              SegmentRows(add_log[i].segment)
                 \subseteq SnapshotTids(add_log[i].segment.table)
        /\ OutputRows \subseteq snapshot
        /\ pc = "done"
              => OutputRows =
                   {r \in snapshot :
                       /\ r.table \in DOMAIN row_ids
                       /\ tid_to_int(r.tid) \in row_ids[r.table]}

\* A parallel dump has ended; a row inserted after the snapshot references
\* an output row through a reference traversed in reverse.
C5_Witness ==
    /\ pc = "done"
    /\ params.parallelism > 1
    /\ \E r \in db \ snapshot : \E k \in DOMAIN References : \E o \in OutputRows :
          /\ REVERSE \in References[k].directions
          /\ r \in Referencing(o, References[k], db)
          /\ \E it \in emitted :
                /\ it.direction = REVERSE
                /\ it.reference = References[k].id
                /\ o.tid \in SegmentRows(it.segment)

(***************************************************************************)
(* C6. Roundtrip: restoring the archive of a dump into an empty database   *)
(* of the same schema succeeds (the restore is refused only for            *)
(* conflicting parameters), and then the destination holds exactly the     *)
(* archive's rows, per table as many as the manifest's row_counts sum to.  *)
(***************************************************************************)
DestRows(t) == {r \in dest : r.table = t}

RowCounts(item) == [i \in DOMAIN item.segments |-> item.segments[i].row_count]

C6_Roundtrip ==
    /\ rpc = "failed" => (rparams.parallelism > 1 /\ rparams.transaction)
    /\ rpc = "done" =>
          \A t \in ItemIds(items) :
              /\ DestRows(t) = ArchiveRows(t)
              /\ Cardinality(DestRows(t)) = SumSeq(RowCounts(ItemOf(t)))

(***************************************************************************)
(* C8. Deferrable constraints: with two tables in the manifest, every      *)
(* foreign key between them deferrable, and per-task transactions on more  *)
(* than one worker, both items are ready from the start and the restore    *)
(* does not fail.                                                          *)
(***************************************************************************)
C8_DeferrableSucceeds ==
    (/\ rpc \in {"running", "commit", "done", "failed"}
     /\ rparams.parallelism > 1
     /\ ~ rparams.transaction
     /\ Cardinality(ItemIds(items)) = 2
     /\ constraints /= {}
     /\ \A c \in constraints : c.deferrable /\ c.table /= c.reference_table)
       => /\ rpc /= "failed"
          /\ \A t \in ItemIds(items) : Deps(constraints, t) = {}

(***************************************************************************)
(* C9. Termination: under fair scheduling the dump ends with the queue     *)
(* empty and no worker busy; every yielded item comes from a segment with  *)
(* at least one new row, and the segments that yield items are at most as  *)
(* many as the rows of the snapshot.                                       *)
(***************************************************************************)
Quiescent ==
    /\ pc \in {"done", "failed"}
    /\ queue = {}
    /\ \A w \in Workers : ~ InFlight(w)

YieldBound ==
    /\ \A it \in emitted :
          /\ it.segment.row_ids /= <<>>
          /\ \E i \in DOMAIN add_log : add_log[i].segment = it.segment
    /\ Cardinality({it.segment : it \in emitted}) <= Cardinality(snapshot)
    /\ Len(add_log) <= Cardinality(snapshot)

C9_Termination == <>[]Quiescent /\ []YieldBound

\* The dump has come to rest, and one of its tasks found rows that were all
\* known already: it produced no segment and no successor.
C9_Witness ==
    /\ Quiescent
    /\ pc = "done"
    /\ \E it \in emitted :
          /\ ReferenceQuery(snapshot, it) /= <<>>
          /\ \A i \in DOMAIN add_log : add_log[i].via /= it

(***************************************************************************)
(* C10. Configuration validation precedes every session: a dump asked for  *)
(* slice output with the schema, a dump with a root of an unknown table    *)
(* and a restore asked for a single transaction on several workers fail    *)
(* with no session, sink or archive opened and no row read or written.     *)
(***************************************************************************)
NothingRead ==
    /\ \A s \in DOMAIN sess : ~ sess[s].open
    /\ ~ output.open
    /\ output.segments = <<>>
    /\ pool = "idle"
    /\ add_log = <<>>
    /\ snapshot = {}

C10_ValidationFirst ==
    /\ (params.output_type = SLICE /\ params.include_schema /\ pc /= "start")
          => pc = "failed" /\ opened = {} /\ NothingRead
    /\ ((\E i \in DOMAIN root_configs :
            root_configs[i].table \notin TableIds(scenario.desc))
        /\ pc \notin {"start", "load_schema", "resolve_roots"})
          => pc = "failed" /\ opened \subseteq {"schema_file"} /\ NothingRead
    /\ (rparams.parallelism > 1 /\ rparams.transaction /\ rpc /= "start")
          => /\ rpc = "failed"
             /\ ropened = {}
             /\ dest = {}
             /\ \A x \in DOMAIN pending : pending[x] = {}

\* A restore refused for its parameters, after a dump that went through.
C10_Witness ==
    /\ rpc = "failed"
    /\ rparams.parallelism > 1
    /\ rparams.transaction
    /\ ropened = {}

(***************************************************************************)
(* C11. Failure is fatal: once a task of the dump has raised, the dump has *)
(* an error, never reaches its last lines and never writes the manifest,   *)
(* whatever segments are in the sink already; and it ends by raising the   *)
(* error to its caller.                                                    *)
(***************************************************************************)
Surfaced == pc = "failed" /\ error /= "" /\ ~ output.manifest_written

C11_FailureFatal ==
    /\ [](pool = "failed" =>
            /\ error /= ""
            /\ pc \in {"run", "failed"}
            /\ ~ output.manifest_written
            /\ output.manifest = <<>>)
    /\ (pool = "failed") ~> Surfaced

\* A slice dump on two workers has raised after a segment was written, one
\* worker having failed and the other having been stopped.
C11_Witness ==
    /\ Surfaced
    /\ pool = "failed"
    /\ params.output_type = SLICE
    /\ params.parallelism > 1
    /\ output.segments /= <<>>
    /\ \A w \in Workers : wpc[w] = "stopped"

(***************************************************************************)
(* C12. No empty manifest entries: a table has a manifest entry exactly    *)
(* when one of its rows has been added, every entry has a segment, every   *)
(* segment counts at least one row, and the manifest changes only when add *)
(* returns a segment; a root that matches no row leaves no segment and, if *)
(* nothing else reaches its table, no entry.                               *)
(***************************************************************************)
HasEntry(t) == ManifestIndex(table_manifests, t) /= 0

ManifestWellFormed ==
    /\ \A t \in TableIds(scenario.desc) :
          HasEntry(t) <=> Existing(row_ids, t) /= {}
    /\ \A i, j \in DOMAIN table_manifests :
          table_manifests[i].id = table_manifests[j].id => i = j
    /\ \A i \in DOMAIN table_manifests :
          /\ table_manifests[i].segments /= <<>>
          /\ \A k \in DOMAIN table_manifests[i].segments :
                table_manifests[i].segments[k].row_count >= 1
    /\ \A i \in DOMAIN add_log :
          /\ add_log[i].segment.row_ids /= <<>>
          /\ (add_log[i].via.kind = "root"
                => RootQuery(snapshot, add_log[i].via) /= <<>>)

C12_NoEmptyEntries ==
    /\ []ManifestWellFormed
    /\ [][table_manifests' /= table_manifests
            => Len(add_log') = Len(add_log) + 1]_vars

\* A dump has ended whose manifest has an entry, and none for the table of
\* a root that matched no row.
C12_Witness ==
    /\ pc = "done"
    /\ table_manifests /= <<>>
    /\ \E i \in DOMAIN root_configs :
          /\ root_configs[i].table \in TableIds(scenario.desc)
          /\ RootQuery(snapshot, _RootItem(i, root_configs[i].table,
                                           root_configs[i].condition)) = <<>>
          /\ ~ HasEntry(root_configs[i].table)

(***************************************************************************)
(* C13. Manifest last and complete: when the manifest of a slice dump is   *)
(* written the pool has ended, no worker is busy and no segment stream is  *)
(* open; every segment the manifest lists has exactly one payload in the   *)
(* sink, of as many rows as the manifest counts, and the sink holds no     *)
(* other payload.  A restore copies a segment only after it has read the   *)
(* manifest.                                                               *)
(***************************************************************************)
PayloadsOf(t, i) ==
    {k \in DOMAIN output.segments :
        output.segments[k].table = t /\ output.segments[k].index = i}

Listed(t, i) ==
    \E m \in DOMAIN output.manifest :
        /\ output.manifest[m].id = t
        /\ i \in 0..(Len(output.manifest[m].segments) - 1)

C13_ManifestLast ==
    /\ output.manifest_written =>
          /\ params.output_type = SLICE
          /\ pool = "done"
          /\ \A w \in Workers : ~ InFlight(w)
          /\ output.stream = NoSegment
          /\ sink_lock = NoOwner
          /\ output.manifest = table_manifests
          /\ \A m \in DOMAIN output.manifest :
                \A i \in 0..(Len(output.manifest[m].segments) - 1) :
                    LET found == PayloadsOf(output.manifest[m].id, i)
                    IN  /\ Cardinality(found) = 1
                        /\ \A k \in found :
                              Cardinality(output.segments[k].rows)
                                = output.manifest[m].segments[i + 1].row_count
          /\ \A k \in DOMAIN output.segments :
                Listed(output.segments[k].table, output.segments[k].index)
    /\ (\E w \in Workers : rwpc[w] = "copy" \/ rwnext[w] > 0)
          => /\ rpc = "running"
             /\ "archive" \in ropened
             /\ items = output.manifest
    /\ (pc = "done" /\ params.output_type = SLICE) => output.manifest_written

\* A parallel slice dump has written a manifest that lists two segments for
\* one table, and a restore that has read it is copying a segment.
C13_Witness ==
    /\ output.manifest_written
    /\ params.parallelism > 1
    /\ \E m \in DOMAIN output.manifest : Len(output.manifest[m].segments) >= 2
    /\ \E w \in Workers : rwpc[w] = "copy" /\ rwnext[w] > 0

(***************************************************************************)
(* C14. Cycle detection on restore: when the non-deferrable foreign keys   *)
(* between the manifest's tables close a cycle (a key of a table on itself *)
(* included), no segment is ever copied, and once the runner has been      *)
(* started the restore has failed with CycleDetected.                      *)
(***************************************************************************)
OrderingEdge(t, u) ==
    \E c \in DestinationKeys :
        ~ c.deferrable /\ c.table = t /\ c.reference_table = u

OrderingCycle ==
    \E n \in 1..Len(items) : \E path \in [1..n -> ItemIds(items)] :
        \A i \in 1..n : OrderingEdge(path[i], path[(i % n) + 1])

NothingCopied ==
    /\ dest = {}
    /\ \A x \in DOMAIN pending : pending[x] = {}
    /\ \A w \in Workers : rwpc[w] = "idle" /\ rwnext[w] = 0
    /\ \A t \in DOMAIN istate : istate[t] = "waiting"

C14_CycleDetected ==
    (rpc \notin {"none", "start", "open_archive"} /\ OrderingCycle)
       => /\ NothingCopied
          /\ rpc \in {"running", "commit", "done", "failed"}
                => rpc = "failed" /\ rerror = "CycleDetected"

\* Two tables whose non-deferrable keys reference each other: the restore
\* has been refused.
C14_Witness ==
    /\ rpc = "failed"
    /\ rerror = "CycleDetected"
    /\ Cardinality(ItemIds(items)) = 2
    /\ OrderingCycle
    /\ \A t \in ItemIds(items) : ~ OrderingEdge(t, t)

(***************************************************************************)
(* C15. Session exclusivity: two dump tasks in progress never use the same *)
(* session and two restore tasks in progress never use the same            *)
(* transaction; with the coordinator's cursor shared (dump parallelism 1,  *)
(* restore in a single transaction) at most one task is in progress; a     *)
(* worker beyond the parallelism never runs.                               *)
(***************************************************************************)
Copying(w) == rwpc[w] = "copy"

C15_SessionExclusive ==
    /\ \A v, w \in Workers :
          (v /= w /\ InFlight(v) /\ InFlight(w)) => SessionOf(v) /= SessionOf(w)
    /\ \A w \in Workers :
          InFlight(w) => /\ w <= params.parallelism
                         /\ (params.parallelism > 1 => SessionOf(w) /= Coordinator)
    /\ params.parallelism = 1 => Cardinality({w \in Workers : InFlight(w)}) <= 1
    /\ \A v, w \in Workers :
          (v /= w /\ Copying(v) /\ Copying(w)) => TxnOf(v) /= TxnOf(w)
    /\ \A w \in Workers : Copying(w) => w <= rparams.parallelism
    /\ rparams.transaction => Cardinality({w \in Workers : Copying(w)}) <= 1

\* After a dump on two workers that returned two segments, two restore
\* tasks are copying at the same time, each in its own transaction.
C15_Witness ==
    /\ params.parallelism > 1
    /\ Len(add_log) >= 2
    /\ rparams.parallelism > 1
    /\ \E v, w \in Workers :
          /\ v /= w
          /\ Copying(v) /\ Copying(w)
          /\ pending[TxnOf(v)] /= {} /\ pending[TxnOf(w)] /= {}

(***************************************************************************)
(* C16. Lock discipline: the discovery result's lock is held only inside   *)
(* add and the sink's lock only while a scratch file is copied into an     *)
(* open segment; a worker in a discovery query, a guard query or an        *)
(* extraction COPY holds neither.  add runs with the discovery's result    *)
(* fetched and before the extraction, and the sink's lock is taken with    *)
(* the extraction finished.                                                *)
(***************************************************************************)
RoundTripStages == {"discover", "guard", "extract"}

C16_LockDiscipline ==
    /\ lock /= NoOwner => (lock \in Workers /\ wpc[lock] = "add_locked")
    /\ sink_lock /= NoOwner => (sink_lock \in Workers /\ wpc[sink_lock] = "copy")
    /\ \A w \in Workers :
          /\ wpc[w] \in RoundTripStages => (lock /= w /\ sink_lock /= w)
          /\ wpc[w] \in {"add", "add_locked"}
                => (wfound[w] /= <<>> /\ wtmp[w] = {} /\ wseg[w] = NoSegment)
          /\ wpc[w] = "extract" => (wseg[w] /= NoSegment /\ wtmp[w] = {})
          /\ wpc[w] \in {"open_segment", "copy"}
                => wtmp[w] = DataQuery(snapshot, wseg[w].table, wseg[w].row_ids)
          /\ wpc[w] = "copy" => (sink_lock = w /\ wtmp[w] /= {})

\* One worker is in its extraction COPY while the other holds the sink's
\* lock.
C16_Witness ==
    \E v, w \in Workers :
        /\ v /= w
        /\ wpc[v] = "extract"
        /\ wpc[w] = "copy"
        /\ sink_lock = w

(***************************************************************************)
(* C17. Sink mutual exclusion: for either output type at most one worker   *)
(* has a segment stream open; a stream is open exactly while the sink's    *)
(* lock is held, by the worker that copies its segment into it; and the    *)
(* lock is held by no worker that has ended, failed or been stopped.       *)
(***************************************************************************)
Writers == {w \in Workers : wpc[w] = "copy"}

C17_SinkExclusive ==
    /\ Cardinality(Writers) <= 1
    /\ (output.stream /= NoSegment) <=> (sink_lock /= NoOwner)
    /\ \A w \in Workers :
          /\ w \in Writers => (sink_lock = w /\ output.stream = wseg[w])
          /\ sink_lock = w => w \in Writers
    /\ (pool /= "running" /\ \A w \in Workers : ~ InFlight(w))
          => (sink_lock = NoOwner /\ output.stream = NoSegment)

\* SQL output on two workers: after one segment was written, a writer
\* failed while copying; the lock is free and no stream is open.
C17_Witness ==
    /\ params.output_type = SQL
    /\ params.parallelism > 1
    /\ error = "SinkError"
    /\ output.segments /= <<>>
    /\ sink_lock = NoOwner
    /\ output.stream = NoSegment
    /\ \E w \in Workers : wpc[w] = "stopped" /\ wtmp[w] /= {}

(***************************************************************************)
(* C18. Frontier expansion is exact: the items yielded from a segment are  *)
(* one per enabled direction of every reference of its table, less the     *)
(* inverse of the edge the segment was reached through, and nothing else;  *)
(* no item traverses a reference in a direction it does not list.  In S3   *)
(* (FORWARD only, root order 1) the output is order 1 and customer 1.      *)
(***************************************************************************)
Inverse(via, segment) ==
    IF via.kind = "ref"
    THEN {_ReferenceItem(segment, via.reference, Opposite(via.direction))}
    ELSE {}

YieldedFrom(segment) == {it \in emitted : it.segment = segment}

DirectionsOf(r) ==
    UNION {References[k].directions :
             k \in {x \in DOMAIN References : References[x].id = r}}

OutputKeys == {<<r.table, r.vals.id>> : r \in OutputRows}

C18_FrontierExact ==
    /\ \A i \in DOMAIN add_log :
          LET segment == add_log[i].segment
              expected == EnabledItems(segment) \ Inverse(add_log[i].via, segment)
          IN  /\ YieldedFrom(segment) \subseteq expected
              /\ HasYielded(segment) => YieldedFrom(segment) = expected
    /\ \A it \in emitted :
          /\ it.direction \in DirectionsOf(it.reference)
          /\ \E i \in DOMAIN add_log : add_log[i].segment = it.segment
    /\ (pc = "done" /\ scenario.name = "S3"
          /\ root_configs = <<RootConfig("order", {1})>>)
          => OutputKeys = {<<"order", 1>>, <<"customer", 1>>}

\* S3 has ended: the order segment yielded its FORWARD item, the customer
\* segment nothing, and the customer's other order is not in the output.
C18_Witness ==
    /\ pc = "done"
    /\ scenario.name = "S3"
    /\ root_configs = <<RootConfig("order", {1})>>
    /\ Cardinality(emitted) = 1
    /\ Len(add_log) = 2
    /\ \E r \in snapshot \ OutputRows : r.table = "order" /\ r.vals.p = 1

(***************************************************************************)
(* C19. Single-transaction restore is all-or-nothing: with transaction set *)
(* every COPY runs in the coordinator's transaction, the destination       *)
(* changes only by the coordinator's commit after every item is done, and  *)
(* a restore that failed has committed no row.                             *)
(***************************************************************************)
AllDone == \A t \in ItemIds(items) : t \in DOMAIN istate /\ istate[t] = "done"

C19_AllOrNothing ==
    /\ [](rparams.transaction =>
            /\ \A w \in Workers : pending[w] = {}
            /\ \A w \in Workers : Copying(w) => TxnOf(w) = Coordinator
            /\ rpc /= "done" => dest = {}
            /\ rpc = "failed" => pending[Coordinator] = {}
            /\ rpc = "done" =>
                  (AllDone /\ \A t \in ItemIds(items) : DestRows(t) = ArchiveRows(t)))
    /\ [][(rparams.transaction /\ dest' /= dest)
            => (rpc = "commit" /\ rpc' = "done" /\ AllDone)]_vars

\* A restore in a single transaction has failed after one item was copied
\* and another one failed: the destination is empty.
C19_Witness ==
    /\ rparams.transaction
    /\ rpc = "failed"
    /\ DOMAIN istate = ItemIds(items)
    /\ \E t, u \in ItemIds(items) :
          /\ ArchiveRows(t) /= {}
          /\ istate[t] = "done"
          /\ istate[u] = "failed"
    /\ dest = {}

(***************************************************************************)
(* C20. Restore completeness: under fair scheduling a running restore      *)
(* comes to have every item done unless an item fails.  An item is run by  *)
(* one worker at a time and never again once it has started and ended; its *)
(* segments are copied one by one from index 0 upwards, each into the      *)
(* task's one transaction, and it is done only with all of them copied; an *)
(* item of a table without non-deferrable key is ready while it waits.     *)
(***************************************************************************)
SomeFailed ==
    \E t \in DOMAIN istate : istate[t] \in {"failed", "abandoned"}

RunnersOf(t) == {w \in Workers : Copying(w) /\ rwitem[w] = t}

CopiedSoFar(w) ==
    UNION {ArchiveSegment(rwitem[w], i) : i \in 0..(rwnext[w] - 1)}

RestoreProgress ==
    rpc = "running" =>
        /\ DOMAIN istate = ItemIds(items)
        /\ \A t \in ItemIds(items) :
              /\ Cardinality(RunnersOf(t)) = IF istate[t] = "running" THEN 1 ELSE 0
              /\ (istate[t] = "waiting"
                    /\ ~ \E u \in ItemIds(items) : OrderingEdge(t, u))
                    => (Deps(constraints, t) = {} /\ Ready(t))
              /\ (istate[t] = "done" /\ ~ rparams.transaction)
                    => ArchiveRows(t) \subseteq dest
              /\ (istate[t] = "done" /\ rparams.transaction
                    /\ Coordinator \notin aborted)
                    => ArchiveRows(t) \subseteq pending[Coordinator]
        /\ \A w \in Workers :
              Copying(w) =>
                  /\ rwnext[w] \in 0..Len(ItemOf(rwitem[w]).segments)
                  /\ CopiedSoFar(w) \subseteq pending[TxnOf(w)]

SegmentsInOrder ==
    \A w \in Workers :
        rwnext'[w] /= rwnext[w] =>
            \/ /\ rwnext'[w] = rwnext[w] + 1
               /\ rwitem'[w] = rwitem[w]
               /\ pending'[TxnOf(w)] =
                     pending[TxnOf(w)] \cup ArchiveSegment(rwitem[w], rwnext[w])
            \/ /\ rwnext'[w] = 0
               /\ ~ Copying(w)'

ItemsOnce ==
    \A t \in DOMAIN istate :
        /\ (istate[t] /= "waiting" /\ istate'[t] /= istate[t])
              => (istate[t] = "running" /\ istate'[t] \in {"done", "failed"})
        /\ (istate[t] /= "done" /\ istate'[t] = "done")
              => \E w \in RunnersOf(t) : rwnext[w] = Len(ItemOf(t).segments)

C20_RestoreComplete ==
    /\ []RestoreProgress
    /\ [][rpc = "running" => (SegmentsInOrder /\ ItemsOnce)]_vars
    /\ (rpc = "running") ~> (AllDone \/ SomeFailed)

\* A restore on two workers has ended: two items, one ordered after the
\* other by a non-deferrable key, one of them of two segments.
C20_Witness ==
    /\ rpc = "done"
    /\ rparams.parallelism > 1
    /\ AllDone
    /\ \E t, u \in ItemIds(items) :
          /\ t /= u
          /\ OrderingEdge(t, u)
          /\ Len(ItemOf(u).segments) >= 2
    /\ \A t \in ItemIds(items) : DestRows(t) = ArchiveRows(t)

(***************************************************************************)
(* Schema invariants.                                                      *)
(***************************************************************************)
Loaded == "schema_file" \in opened

Occurrences(seq, x) == Cardinality({i \in DOMAIN seq : seq[i] = x})

\* The data-model invariants of a schema description.
UniqueTableIds(desc) ==
    \A i, j \in DOMAIN desc.tables :
        desc.tables[i].id = desc.tables[j].id => i = j

UniqueReferenceIds(desc) ==
    \A i, j \in DOMAIN desc.references :
        desc.references[i].id = desc.references[j].id => i = j

Resolves(desc) ==
    \A i \in DOMAIN desc.references :
        /\ desc.references[i].table \in TableIds(desc)
        /\ desc.references[i].reference_table \in TableIds(desc)

EqualLengths(desc) ==
    \A i \in DOMAIN desc.references :
        Len(desc.references[i].columns) =
            Len(desc.references[i].reference_columns)

\* The same invariants on the Schema object that construction returned.
SchemaResolved(s) ==
    \A r \in DOMAIN s.references :
        /\ s.references[r].id = r
        /\ s.references[r].table \in DOMAIN s.tables
        /\ s.references[r].reference_table \in DOMAIN s.tables

Adjacency(s) ==
    \A r \in DOMAIN s.references :
        /\ Occurrences(s.tables[s.references[r].table].references, r) = 1
        /\ Occurrences(s.tables[s.references[r].reference_table]
                          .reverse_references, r) = 1
        /\ \A t \in DOMAIN s.tables :
              /\ t /= s.references[r].table
                    => Occurrences(s.tables[t].references, r) = 0
              /\ t /= s.references[r].reference_table
                    => Occurrences(s.tables[t].reverse_references, r) = 0

SchemaEqualLengths(s) ==
    \A r \in DOMAIN s.references :
        Len(s.references[r].columns) = Len(s.references[r].reference_columns)

\* C21. Once the schema file has been read: a Schema that construction
\* returned has one table per table of the description and one reference
\* per reference of the description (the ids are unique), every reference
\* resolves to tables of the schema, sits exactly once in its source
\* table's references and exactly once in its target table's
\* reverse_references, and has as many columns as reference columns; and a
\* description that breaks one of the invariants made construction fail.
C21_SchemaInvariants ==
    Loaded =>
        /\ schema.ok =>
              /\ Cardinality(DOMAIN schema.tables) = Len(scenario.desc.tables)
              /\ Cardinality(DOMAIN schema.references) =
                    Len(scenario.desc.references)
              /\ SchemaResolved(schema)
              /\ Adjacency(schema)
              /\ SchemaEqualLengths(schema)
        /\ ~ (/\ UniqueTableIds(scenario.desc)
              /\ UniqueReferenceIds(scenario.desc)
              /\ Resolves(scenario.desc)
              /\ EqualLengths(scenario.desc))
              => ~ schema.ok /\ pc = "failed" /\ error = schema.error

(***************************************************************************)
(* Discovery guard.                                                        *)
(***************************************************************************)
OtherAccount(r) ==
    /\ r.vals.account_id /= Null
    /\ r.vals.account_id /= GuardAccount

\* The rows of the segments that add returned to tasks of the given kind.
DiscoveredBy(kind) ==
    {r \in snapshot :
        \E j \in DOMAIN add_log :
            /\ add_log[j].via.kind = kind
            /\ add_log[j].segment.table = r.table
            /\ r.tid \in SegmentRows(add_log[j].segment)}

\* A step in which the guard query of worker w returns a row.
GuardFails(w) ==
    /\ wpc[w] = "guard"
    /\ pool = "running"
    /\ pool' = "failed"
    /\ wpc'[w] = "stopped"

\* The task raises before add: the discovery result is as it was, its lock
\* is not taken and no segment is returned.
GuardRaisesBeforeAdd ==
    \A w \in Workers :
        GuardFails(w) => /\ UNCHANGED <<row_ids, id_count, table_manifests>>
                         /\ UNCHANGED <<lock, add_log>>
                         /\ error' /= ""

\* C22. A dump that completes without error holds no row, in a table with
\* an account_id column, whose account_id differs from 3439, whether a root
\* query or a reference query discovered it; and a task whose guard fails
\* raises before add, leaving the row-id sets, the manifest stubs and the
\* row counter unchanged.
C22_DiscoveryGuard ==
    /\ [](pc = "done" =>
            \A r \in OutputRows \cup DiscoveredBy("root") \cup DiscoveredBy("ref") :
                HasGuard(r.table) => ~ OtherAccount(r))
    /\ [][GuardRaisesBeforeAdd]_vars

\* C22 as amended: the guard covers the rows a reference query discovers.
\* A dump that completes without error holds no row discovered through a
\* reference, in a table with an account_id column, whose account_id is
\* not NULL and differs from 3439; the rows of a root query are not
\* checked; and a task whose guard fails raises before add, leaving the
\* row-id sets, the manifest stubs and the row counter unchanged.
C22_ReferenceGuard ==
    /\ [](pc = "done" =>
            \A r \in DiscoveredBy("ref") :
                HasGuard(r.table) => ~ OtherAccount(r))
    /\ [][GuardRaisesBeforeAdd]_vars

\* A dump has completed whose output holds a row that a reference query
\* discovered and the guard let through.
C22_Witness ==
    /\ pc = "done"
    /\ \E r \in DiscoveredBy("ref") \cap OutputRows : HasGuard(r.table)

(***************************************************************************)
(* Row accounting.                                                         *)
(***************************************************************************)
ManifestRowCount(t) ==
    IF HasEntry(t)
    THEN SumSeq([k \in DOMAIN table_manifests[ManifestIndex(table_manifests, t)]
                                  .segments |->
                   table_manifests[ManifestIndex(table_manifests, t)]
                       .segments[k].row_count])
    ELSE 0

RECURSIVE SumOver(_, _)
SumOver(f, S) ==
    IF S = {} THEN 0
    ELSE LET x == CHOOSE x \in S : TRUE
         IN  f[x] + SumOver(f, S \ {x})

\* The rows of the candidate list that were not known, each once, in the
\* order of their first place in the list.
RECURSIVE FirstPlaces(_, _)
FirstPlaces(candidates, known) ==
    IF candidates = <<>> THEN <<>>
    ELSE IF tid_to_int(Head(candidates)) \in known
         THEN FirstPlaces(Tail(candidates), known)
         ELSE <<Head(candidates)>> \o
              FirstPlaces(Tail(candidates),
                          known \cup {tid_to_int(Head(candidates))})

\* C23. After any sequence of add calls, whatever the candidate lists: for
\* every table the row counts of its manifest segments add up to the number
\* of distinct row ids in its row-id set, the segment an add call returned
\* lists every newly added id exactly once in the order of the candidate
\* list, and the total row counter is the sum over all tables.
C23_RowAccounting ==
    /\ \A t \in DOMAIN row_ids : ManifestRowCount(t) = Cardinality(row_ids[t])
    /\ \A w \in Workers :
          wpc[w] = "yield" =>
              /\ wseg[w].row_ids =
                    FirstPlaces(wfound[w],
                                row_ids[wseg[w].table] \
                                  {tid_to_int(x) : x \in Range(wseg[w].row_ids)})
              /\ \A i, j \in DOMAIN wseg[w].row_ids :
                    wseg[w].row_ids[i] = wseg[w].row_ids[j] => i = j
    /\ id_count = SumOver([t \in DOMAIN row_ids |-> Cardinality(row_ids[t])],
                          DOMAIN row_ids)
====
